---------------------------- MODULE Spec2Model ----------------------------
(***************************************************************************)
(* SignifyLearn backend (src/main.py, src/schemas.py): HTTP handlers over  *)
(* a document store.  A collection is a sequence of documents in insertion *)
(* (natural) order; a document is a record whose DOMAIN is the set of      *)
(* fields it holds.  Python's None is the empty sequence and a present     *)
(* Optional value v is <<v>>; free text (names, tags, the search string q) *)
(* is a sequence of one-character strings so that the case-insensitive     *)
(* match is computed, identifiers (slugs, user ids, enum values) are       *)
(* strings.  font_scale is held in hundredths (1.0 is 100).                *)
(***************************************************************************)
EXTENDS Integers, Sequences, FiniteSets, TLC

VARIABLES
    db,             \* TRUE iff database.db is not None (fixed at import)
    gesture,        \* db["gesture"]
    module,         \* db["module"]
    quiz,           \* db["quiz"]
    profile,        \* db["profile"]
    accessibility,  \* db["accessibility"]
    last,           \* the last completed request: op, args, status, body, and
                    \* whether the request before it was the same request
    seeds,          \* completed seed_data calls so far (counted up to MaxSeeds)
    pc,             \* concurrent requests: position of each in its handler
    req             \* concurrent requests: op, user_id, payload, local doc

vars == <<db, gesture, module, quiz, profile, accessibility, last, seeds, pc, req>>
store == <<gesture, module, quiz, profile, accessibility>>

---------------------------------------------------------------------------
(* Bounds of the model *)
MaxPage == 2
MaxLimit == 2
MaxSeeds == 2
MaxRequests == 2

---------------------------------------------------------------------------
(* Python values *)
None == <<>>
Some(v) == <<v>>
EmptyDict == [f \in {} |-> 0]

\* `if s:` for an Optional[str] holding an identifier
Truthy(o) == o # None /\ o[1] # ""
\* `if q:` for an Optional[str] holding free text
TruthyText(o) == o # None /\ o[1] # <<>>

Min(a, b) == IF a < b THEN a ELSE b

\* d[k] = v, the key added when absent
With(doc, k, v) == [f \in DOMAIN doc \cup {k} |-> IF f = k THEN v ELSE doc[f]]

---------------------------------------------------------------------------
(* Store operations of the pymongo collection the handlers call *)

\* {"user_id": u} / {"slug": s}: equality on one field; a document without
\* the field does not match
MatchesKey(doc, key, v) == key \in DOMAIN doc /\ doc[key] = v

Indexes(coll, key, v) == {i \in 1..Len(coll) : MatchesKey(coll[i], key, v)}

FirstIndex(coll, key, v) ==
    CHOOSE i \in Indexes(coll, key, v) : \A j \in Indexes(coll, key, v) : i <= j

\* find_one with the filter dropped
find_one_First(coll, key, v) == IF Len(coll) = 0 THEN None ELSE Some(coll[1])

\* collection.find_one({key: v}): the first match in natural order, or None
find_one(coll, key, v) ==
    IF Indexes(coll, key, v) = {} THEN None ELSE Some(coll[FirstIndex(coll, key, v)])

\* collection.insert_one(doc): appended, with a fresh _id (nothing is ever
\* deleted, so the position is fresh)
insert_one(coll, doc) == Append(coll, With(doc, "_id", Len(coll) + 1))

\* cursor.skip(n), n >= 0
Skip(s, n) == SubSeq(s, n + 1, Len(s))
\* limit off by one
Limit_OffByOne(s, n) == SubSeq(s, 1, Min(n + 1, Len(s)))

\* cursor.limit(n), n >= 1
Limit(s, n) == SubSeq(s, 1, Min(n, Len(s)))

\* what a handler returns (or the HTTPException it raises), recorded with
\* its request
Resp(op, args, status, body) ==
    [op |-> op, args |-> args, status |-> status, body |-> body,
     repeat |-> (last.op = op /\ last.args = args)]

\* _to_json: a falsy doc is returned as is; otherwise _id is replaced by
\* id = str(_id)
_to_json(doc) ==
    IF doc = EmptyDict THEN doc
    ELSE IF "_id" \in DOMAIN doc
         THEN [k \in (DOMAIN doc \ {"_id"}) \cup {"id"} |->
                  IF k = "id" THEN ToString(doc["_id"]) ELSE doc[k]]
         ELSE doc

---------------------------------------------------------------------------
(* Gesture catalog *)

\* str.lower on one character, as "$options": "i" folds case
Lower(c) ==
    CASE c = "A" -> "a" [] c = "H" -> "h" [] c = "T" -> "t" [] c = "L" -> "l"
      [] c = "O" -> "o" [] OTHER -> c

\* {"$regex": q, "$options": "i"} for a q without metacharacters: q occurs
\* in text, case folded
RegexI(q, text) ==
    \E i \in 0..(Len(text) - Len(q)) :
        \A j \in 1..Len(q) : Lower(text[i + j]) = Lower(q[j])

\* filter_q as list_gestures builds it; a None entry is an absent key
FilterQ(q, category, difficulty) ==
    [or |-> IF TruthyText(q) THEN q ELSE None,
     category |-> IF Truthy(category) THEN category ELSE None,
     difficulty |-> IF Truthy(difficulty) THEN difficulty ELSE None]

\* the store's evaluation of filter_q on one document
Matches(doc, f) ==
    /\ f.or # None =>
          \/ RegexI(f.or[1], doc.name)
          \/ \E t \in 1..Len(doc.tags) : RegexI(f.or[1], doc.tags[t])
    /\ f.category # None => doc.category = f.category[1]
    /\ f.difficulty # None => doc.difficulty = f.difficulty[1]

MatchingDocs(coll, f) == SelectSeq(coll, LAMBDA d : Matches(d, f))

\* db["gesture"].count_documents(filter_q)
count_documents(coll, f) == Len(MatchingDocs(coll, f))

MapToJson(s) == [i \in 1..Len(s) |-> _to_json(s[i])]

\* sample documents of seed_data (the fields the handlers filter on)
Text_A == <<"A">>
Text_Halo == <<"H", "a", "l", "o">>
Text_TerimaKasih == <<"T", "e", "r", "i", "m", "a", " ", "k", "a", "s", "i", "h">>

GestureDoc(name, slug, category, difficulty, tags) ==
    [name |-> name, slug |-> slug, category |-> category,
     difficulty |-> difficulty, tags |-> tags]

sample_gestures ==
    << GestureDoc(Text_A, "letter-a", "letters", "easy", <<>>),
       GestureDoc(Text_Halo, "halo", "basic", "easy", <<>>),
       GestureDoc(Text_TerimaKasih, "terima-kasih", "basic", "easy", <<>>) >>

sample_modules ==
    << [title |-> "Dasar Bahasa Isyarat", slug |-> "dasar-bahasa-isyarat",
        gesture_slugs |-> <<"halo", "terima-kasih", "letter-a">>] >>

sample_quiz ==
    [title |-> "Kuis Dasar", slug |-> "kuis-dasar",
     related_module_slug |-> Some("dasar-bahasa-isyarat")]

\* create_document(collection_name, data) of database.py: the model's
\* fields are inserted as one new document
create_document(coll, data) == insert_one(coll, data)

RECURSIVE CreateAll(_, _)
\* `for g in docs: create_document(collection, g)`
CreateAll(coll, docs) ==
    IF docs = <<>> THEN coll
    ELSE CreateAll(create_document(coll, Head(docs)), Tail(docs))

---------------------------------------------------------------------------
(* Inputs *)
Slugs == {"halo", "dasar-bahasa-isyarat", "kuis-dasar", "nope"}
Queries == {None, Some(<<>>), Some(<<"H", "A">>)}
Categories == {None, Some("basic")}
Difficulties == {None, Some("easy")}
\* page and limit as the listing contract takes them: from 1
Pages == 1..MaxPage
Limits == 1..MaxLimit

\* documents a store may hold before the first request
OtherOk == GestureDoc(<<"O", "k">>, "ok", "basic", "hard", << <<"h", "a", "l", "o">> >>)
OtherHai == GestureDoc(<<"H", "a", "i">>, "halo", "emotions", "easy", <<>>)

InitGestures ==
    {<<>>, CreateAll(<<>>, <<OtherOk>>), CreateAll(<<>>, <<OtherHai, OtherOk>>)}
InitModules ==
    {<<>>, CreateAll(<<>>, << [title |-> "Lama", slug |-> "lama", gesture_slugs |-> <<>>] >>)}
InitQuizzes ==
    {<<>>, CreateAll(<<>>, << [title |-> "Kuis Lama", slug |-> "kuis-dasar",
                                related_module_slug |-> None] >>)}

---------------------------------------------------------------------------
(* Handlers: each action is one whole request *)

Done(r) ==
    /\ last' = r
    /\ UNCHANGED <<db, pc, req>>

list_gestures(q, category, difficulty, page, limit) ==
    LET args == [q |-> q, category |-> category, difficulty |-> difficulty,
                 page |-> page, limit |-> limit]
        filter_q == FilterQ(q, category, difficulty)
        total == count_documents(gesture, filter_q)
        skip == (page - 1) * limit
    IN  /\ UNCHANGED <<store, seeds>>
        /\ IF ~db
           THEN Done(Resp("list_gestures", args, 200,
                          [items |-> <<>>, total |-> 0, page |-> page, limit |-> limit]))
           ELSE Done(Resp("list_gestures", args, 200,
                          [items |-> MapToJson(Limit(Skip(MatchingDocs(gesture, filter_q), skip), limit)),
                           total |-> total, page |-> page, limit |-> limit]))

\* get_gesture, get_module and get_quiz share one body
GetBySlug(op, coll, slug) ==
    LET doc == find_one(coll, "slug", slug)
    IN  /\ UNCHANGED <<store, seeds>>
        /\ IF ~db
           THEN Done(Resp(op, [slug |-> slug], 404, [detail |-> "Database not available"]))
           ELSE IF doc = None
           THEN Done(Resp(op, [slug |-> slug], 404, [detail |-> "not found"]))
           ELSE Done(Resp(op, [slug |-> slug], 200, _to_json(doc[1])))

get_gesture(slug) == GetBySlug("get_gesture", gesture, slug)
get_module(slug) == GetBySlug("get_module", module, slug)
get_quiz(slug) == GetBySlug("get_quiz", quiz, slug)

list_modules ==
    /\ UNCHANGED <<store, seeds>>
    /\ IF ~db
       THEN Done(Resp("list_modules", EmptyDict, 200, <<>>))
       ELSE Done(Resp("list_modules", EmptyDict, 200, MapToJson(module)))

\* seeding without the emptiness check
SeedIfEmpty_Always(coll, docs) == CreateAll(coll, docs)

\* `if db[c].count_documents({}) == 0: insert the samples`
SeedIfEmpty(coll, docs) == IF Len(coll) = 0 THEN CreateAll(coll, docs) ELSE coll

seed_data ==
    /\ seeds' = Min(seeds + 1, MaxSeeds)
    /\ UNCHANGED <<profile, accessibility>>
    /\ IF ~db
       THEN /\ UNCHANGED <<gesture, module, quiz>>
            /\ Done(Resp("seed_data", EmptyDict, 200, [inserted |-> 0]))
       ELSE /\ gesture' = SeedIfEmpty(gesture, sample_gestures)
            /\ module' = SeedIfEmpty(module, sample_modules)
            /\ quiz' = SeedIfEmpty(quiz, <<sample_quiz>>)
            /\ Done(Resp("seed_data", EmptyDict, 200, [status |-> "ok"]))

---------------------------------------------------------------------------
(* Profiles *)

UserIds == {"u1", "u2"}

\* ProfileUpdate bodies; the second user sends one body only
ProfileUpdate(name, avatar_url, favorite_gesture_slug, remove_favorite, completed_module_slug) ==
    [name |-> name, avatar_url |-> avatar_url,
     favorite_gesture_slug |-> favorite_gesture_slug,
     remove_favorite |-> remove_favorite,
     completed_module_slug |-> completed_module_slug]

ProfileUpdates(u) ==
    IF u = "u1"
    THEN {ProfileUpdate(n, a, f, r, c) :
            n \in {None, Some("Ann")}, a \in {None, Some("a.png")},
            f \in {None, Some(""), Some("halo")}, r \in BOOLEAN,
            c \in {None, Some("dasar-bahasa-isyarat")}}
    ELSE {ProfileUpdate(None, None, Some("halo"), FALSE, None)}

\* os.times().elapsed as update_profile reads it
Elapsed == {"t1"}

\* Profile(user_id=..., name=..., email=...).model_dump()
Profile(user_id, name, email) ==
    [user_id |-> user_id, name |-> name, email |-> email, avatar_url |-> None,
     points |-> 0, level |-> 1, streak_days |-> 0,
     favorite_gesture_slugs |-> <<>>, completed_module_slugs |-> <<>>]

Contains(s, v) == \E i \in 1..Len(s) : s[i] = v

\* $push in place of $addToSet
AddToSet_Push(doc, k, v) ==
    IF k \notin DOMAIN doc THEN With(doc, k, <<v>>) ELSE With(doc, k, Append(doc[k], v))

\* one $addToSet entry: the array is created when the field is absent
AddToSet(doc, k, v) ==
    IF k \notin DOMAIN doc THEN With(doc, k, <<v>>)
    ELSE IF Contains(doc[k], v) THEN doc
    ELSE With(doc, k, Append(doc[k], v))

\* one $pull entry: every occurrence is removed; an absent field stays absent
Pull(doc, k, v) ==
    IF k \notin DOMAIN doc THEN doc
    ELSE With(doc, k, SelectSeq(doc[k], LAMBDA x : x # v))

\* the update document: each operator maps field names to values
NoFields == [f \in {} |-> 0]

RECURSIVE SetAll(_, _, _)
\* "$set": m, for the keys ks of m still to apply
SetAll(doc, m, ks) ==
    IF ks = {} THEN doc
    ELSE LET k == CHOOSE x \in ks : TRUE
         IN  SetAll(With(doc, k, m[k]), m, ks \ {k})

RECURSIVE AddToSetAll(_, _, _)
\* "$addToSet": m, for the keys ks of m still to apply
AddToSetAll(doc, m, ks) ==
    IF ks = {} THEN doc
    ELSE LET k == CHOOSE x \in ks : TRUE
         IN  AddToSetAll(AddToSet(doc, k, m[k]), m, ks \ {k})

RECURSIVE PullAll(_, _, _)
\* "$pull": m, for the keys ks of m still to apply
PullAll(doc, m, ks) ==
    IF ks = {} THEN doc
    ELSE LET k == CHOOSE x \in ks : TRUE
         IN  PullAll(Pull(doc, k, m[k]), m, ks \ {k})

\* the store applying {"$set": .., "$addToSet": .., "$pull": ..} to a document
ApplyUpdate(doc, update) ==
    PullAll(AddToSetAll(SetAll(doc, update.set, DOMAIN update.set),
                        update.addToSet, DOMAIN update.addToSet),
            update.pull, DOMAIN update.pull)

ReplaceAt(coll, i, doc) == [coll EXCEPT ![i] = doc]

\* replace_one in place of update_one: the matched document is rebuilt from
\* the filter and the update alone
update_one_Replace(coll, key, v, update) ==
    IF Indexes(coll, key, v) # {}
    THEN ReplaceAt(coll, FirstIndex(coll, key, v),
                   ApplyUpdate([f \in {key, "_id"} |->
                                   coll[FirstIndex(coll, key, v)][f]], update))
    ELSE insert_one(coll, ApplyUpdate([f \in {key} |-> v], update))

\* collection.update_one({key: v}, update, upsert=True): the first match is
\* updated; without a match a document holding the filter's field is inserted
\* and updated
update_one(coll, key, v, update) ==
    IF Indexes(coll, key, v) # {}
    THEN ReplaceAt(coll, FirstIndex(coll, key, v),
                   ApplyUpdate(coll[FirstIndex(coll, key, v)], update))
    ELSE insert_one(coll, ApplyUpdate([f \in {key} |-> v], update))

\* get_profile without the lookup: a profile is created on every read
get_profile_NoLookup(user_id) ==
    LET created == create_document(profile,
                       Profile(user_id, "Pengguna", user_id \o "@example.com"))
    IN  /\ UNCHANGED <<gesture, module, quiz, accessibility, seeds>>
        /\ profile' = created
        /\ Done(Resp("get_profile", [user_id |-> user_id], 200,
                     _to_json(find_one(created, "user_id", user_id)[1])))

get_profile(user_id) ==
    LET doc == find_one(profile, "user_id", user_id)
        created == create_document(profile,
                       Profile(user_id, "Pengguna", user_id \o "@example.com"))
    IN  /\ UNCHANGED <<gesture, module, quiz, accessibility, seeds>>
        /\ IF ~db
           THEN /\ UNCHANGED profile
                /\ Done(Resp("get_profile", [user_id |-> user_id], 200, EmptyDict))
           ELSE IF doc = None
           THEN /\ profile' = created
                /\ Done(Resp("get_profile", [user_id |-> user_id], 200,
                             _to_json(find_one(created, "user_id", user_id)[1])))
           ELSE /\ UNCHANGED profile
                /\ Done(Resp("get_profile", [user_id |-> user_id], 200, _to_json(doc[1])))

\* the update document update_profile builds from the payload
ProfileUpdateDoc(payload, elapsed) ==
    LET s0 == [f \in {"updated_at"} |-> elapsed]
        s1 == IF payload.name # None THEN With(s0, "name", payload.name[1]) ELSE s0
        s2 == IF payload.avatar_url # None
              THEN With(s1, "avatar_url", payload.avatar_url) ELSE s1
        fav == Truthy(payload.favorite_gesture_slug)
        p1 == IF fav /\ payload.remove_favorite
              THEN With(NoFields, "favorite_gesture_slugs", payload.favorite_gesture_slug[1])
              ELSE NoFields
        a1 == IF fav /\ ~payload.remove_favorite
              THEN With(NoFields, "favorite_gesture_slugs", payload.favorite_gesture_slug[1])
              ELSE NoFields
        a2 == IF Truthy(payload.completed_module_slug)
              THEN With(a1, "completed_module_slugs", payload.completed_module_slug[1])
              ELSE a1
    IN  [set |-> s2, addToSet |-> a2, pull |-> p1]

\* update_profile without the `db is None` guard
update_profile_NoDbCheck(user_id, payload, elapsed) ==
    LET args == [user_id |-> user_id, payload |-> payload]
        updated == update_one(profile, "user_id", user_id,
                              ProfileUpdateDoc(payload, elapsed))
    IN  /\ UNCHANGED <<gesture, module, quiz, accessibility, seeds>>
        /\ profile' = updated
        /\ Done(Resp("update_profile", args, 200,
                     _to_json(find_one(updated, "user_id", user_id)[1])))

update_profile(user_id, payload, elapsed) ==
    LET args == [user_id |-> user_id, payload |-> payload]
        updated == update_one(profile, "user_id", user_id,
                              ProfileUpdateDoc(payload, elapsed))
    IN  /\ UNCHANGED <<gesture, module, quiz, accessibility, seeds>>
        /\ IF ~db
           THEN /\ UNCHANGED profile
                /\ Done(Resp("update_profile", args, 500,
                             [detail |-> "Database not available"]))
           ELSE /\ profile' = updated
                /\ Done(Resp("update_profile", args, 200,
                             _to_json(find_one(updated, "user_id", user_id)[1])))

---------------------------------------------------------------------------
(* Accessibility preferences *)

AccessibilityFields == {"dark_mode", "high_contrast", "font_scale", "reduce_motion"}

\* bounds of Accessibility.font_scale, in hundredths
FontScaleMin == 85
FontScaleMax == 160

\* Accessibility(user_id=...).model_dump()
Accessibility(user_id) ==
    [user_id |-> user_id, dark_mode |-> FALSE, high_contrast |-> FALSE,
     font_scale |-> 100, reduce_motion |-> FALSE]

\* AccessibilityUpdate bodies: every field is Optional and unconstrained; the
\* second user sends one body only
AccessibilityUpdate(dark_mode, high_contrast, font_scale, reduce_motion) ==
    [dark_mode |-> dark_mode, high_contrast |-> high_contrast,
     font_scale |-> font_scale, reduce_motion |-> reduce_motion]

AccessibilityUpdates(u) ==
    IF u = "u1"
    THEN {AccessibilityUpdate(d, h, f, r) :
            d \in {None, Some(TRUE), Some(FALSE)}, h \in {None, Some(TRUE)},
            f \in {None, Some(50), Some(120), Some(200)}, r \in {None, Some(TRUE)}}
    ELSE {AccessibilityUpdate(Some(TRUE), None, None, None)}

\* payload.model_dump(exclude_none=True)
ExcludeNone(payload) ==
    [k \in {f \in DOMAIN payload : payload[f] # None} |-> payload[k][1]]

\* the update document update_accessibility builds: an empty $set changes
\* nothing
AccessibilityUpdateDoc(payload) ==
    [set |-> ExcludeNone(payload), addToSet |-> NoFields, pull |-> NoFields]

get_accessibility(user_id) ==
    LET doc == find_one(accessibility, "user_id", user_id)
        created == create_document(accessibility, Accessibility(user_id))
    IN  /\ UNCHANGED <<gesture, module, quiz, profile, seeds>>
        /\ IF ~db
           THEN /\ UNCHANGED accessibility
                /\ Done(Resp("get_accessibility", [user_id |-> user_id], 200, EmptyDict))
           ELSE IF doc = None
           THEN /\ accessibility' = created
                /\ Done(Resp("get_accessibility", [user_id |-> user_id], 200,
                             _to_json(find_one(created, "user_id", user_id)[1])))
           ELSE /\ UNCHANGED accessibility
                /\ Done(Resp("get_accessibility", [user_id |-> user_id], 200,
                             _to_json(doc[1])))

update_accessibility(user_id, payload) ==
    LET args == [user_id |-> user_id, payload |-> payload]
        updated == update_one(accessibility, "user_id", user_id,
                              AccessibilityUpdateDoc(payload))
    IN  /\ UNCHANGED <<gesture, module, quiz, profile, seeds>>
        /\ IF ~db
           THEN /\ UNCHANGED accessibility
                /\ Done(Resp("update_accessibility", args, 500,
                             [detail |-> "Database not available"]))
           ELSE /\ accessibility' = updated
                /\ Done(Resp("update_accessibility", args, 200,
                             _to_json(find_one(updated, "user_id", user_id)[1])))

---------------------------------------------------------------------------
(* Concurrent profile requests: every store call is one atomic step, a     *)
(* handler's successive store calls are separate steps.  pc[i] names the   *)
(* store call request i makes next.                                        *)

Requests == 1..MaxRequests

NoPayload == ProfileUpdate(None, None, None, FALSE, None)
ConcurrentUpdates ==
    {ProfileUpdate(None, None, Some("halo"), FALSE, None),
     ProfileUpdate(Some("Ann"), None, None, FALSE, None)}

Goto(i, label, r) ==
    /\ pc' = [pc EXCEPT ![i] = label]
    /\ req' = [req EXCEPT ![i] = r]
    /\ UNCHANGED <<db, gesture, module, quiz, accessibility, last, seeds>>

\* a request arrives and its handler runs up to its first store call
begin_get_profile(i, user_id) ==
    /\ pc[i] = "idle"
    /\ UNCHANGED profile
    /\ LET r == [op |-> "get_profile", user_id |-> user_id,
                 payload |-> NoPayload, doc |-> None]
       IN  IF ~db THEN Goto(i, "done", [r EXCEPT !.doc = Some(EmptyDict)])
           ELSE Goto(i, "get_profile_find_one", r)

begin_update_profile(i, user_id, payload) ==
    /\ pc[i] = "idle"
    /\ UNCHANGED profile
    /\ LET r == [op |-> "update_profile", user_id |-> user_id,
                 payload |-> payload, doc |-> None]
       IN  IF ~db THEN Goto(i, "done", r)
           ELSE Goto(i, "update_profile_update_one", r)

\* doc = db["profile"].find_one({"user_id": user_id}); `if not doc:`
get_profile_find_one(i) ==
    /\ pc[i] = "get_profile_find_one"
    /\ UNCHANGED profile
    /\ LET doc == find_one(profile, "user_id", req[i].user_id)
       IN  IF doc = None
           THEN Goto(i, "get_profile_create_document", req[i])
           ELSE Goto(i, "done", [req[i] EXCEPT !.doc = Some(_to_json(doc[1]))])

\* create_document("profile", profile)
get_profile_create_document(i) ==
    /\ pc[i] = "get_profile_create_document"
    /\ profile' = create_document(profile,
                      Profile(req[i].user_id, "Pengguna", req[i].user_id \o "@example.com"))
    /\ Goto(i, "get_profile_reread", req[i])

\* doc = db["profile"].find_one({"user_id": user_id}); return _to_json(doc)
get_profile_reread(i) ==
    /\ pc[i] = "get_profile_reread"
    /\ UNCHANGED profile
    /\ Goto(i, "done",
            [req[i] EXCEPT !.doc = Some(_to_json(find_one(profile, "user_id", req[i].user_id)[1]))])

\* db["profile"].update_one({"user_id": user_id}, update, upsert=True)
update_profile_update_one(i, elapsed) ==
    /\ pc[i] = "update_profile_update_one"
    /\ profile' = update_one(profile, "user_id", req[i].user_id,
                             ProfileUpdateDoc(req[i].payload, elapsed))
    /\ Goto(i, "update_profile_find_one", req[i])

\* doc = db["profile"].find_one({"user_id": user_id}); return _to_json(doc)
update_profile_find_one(i) ==
    /\ pc[i] = "update_profile_find_one"
    /\ UNCHANGED profile
    /\ Goto(i, "done",
            [req[i] EXCEPT !.doc = Some(_to_json(find_one(profile, "user_id", req[i].user_id)[1]))])

---------------------------------------------------------------------------
(* Specifications *)

NoRequest ==
    [op |-> "none", args |-> EmptyDict, status |-> 0, body |-> EmptyDict, repeat |-> FALSE]

Init ==
    /\ db \in BOOLEAN
    /\ gesture \in InitGestures
    /\ module \in InitModules
    /\ quiz \in InitQuizzes
    /\ profile = <<>>
    /\ accessibility = <<>>
    /\ last = NoRequest
    /\ seeds = 0
    /\ pc = [i \in Requests |-> "idle"]
    /\ req = [i \in Requests |-> [op |-> "none", user_id |-> "", payload |-> NoPayload,
                                  doc |-> None]]

\* the store is reachable and the catalog not yet seeded
InitEmptyCatalog == Init /\ db /\ gesture = <<>> /\ module = <<>> /\ quiz = <<>>

NextCatalog ==
    \/ \E q \in Queries, c \in Categories, d \in Difficulties, p \in Pages, l \in Limits :
          list_gestures(q, c, d, p, l)
    \/ \E s \in Slugs : get_gesture(s)
    \/ list_modules
    \/ \E s \in Slugs : get_module(s)
    \/ \E s \in Slugs : get_quiz(s)
    \/ seed_data

NextProfile ==
    \/ \E u \in UserIds : get_profile(u)
    \/ \E u \in UserIds : \E p \in ProfileUpdates(u), t \in Elapsed : update_profile(u, p, t)

NextAccessibility ==
    \/ \E u \in UserIds : get_accessibility(u)
    \/ \E u \in UserIds : \E p \in AccessibilityUpdates(u) : update_accessibility(u, p)

\* every handler, one whole request at a time
Next ==
    \/ NextCatalog
    \/ NextProfile
    \/ NextAccessibility

\* the profile handlers of MaxRequests concurrent requests, one store call
\* at a time
NextConcurrent ==
    \/ \E i \in Requests, u \in UserIds : begin_get_profile(i, u)
    \/ \E i \in Requests, u \in UserIds, p \in ConcurrentUpdates : begin_update_profile(i, u, p)
    \/ \E i \in Requests : get_profile_find_one(i)
    \/ \E i \in Requests : get_profile_create_document(i)
    \/ \E i \in Requests : get_profile_reread(i)
    \/ \E i \in Requests, t \in Elapsed : update_profile_update_one(i, t)
    \/ \E i \in Requests : update_profile_find_one(i)

InitUnavailable == Init /\ ~db

Spec == Init /\ [][Next]_vars
SpecUnavailable == InitUnavailable /\ [][Next]_vars
SpecConcurrent == InitEmptyCatalog /\ [][NextConcurrent]_vars
SpecAccessibility == InitEmptyCatalog /\ [][NextAccessibility]_vars
SpecCatalog == Init /\ [][NextCatalog]_vars
SpecProfile == InitEmptyCatalog /\ [][NextProfile]_vars

---------------------------------------------------------------------------
(* Properties *)

IsPrefix(a, b) == Len(a) <= Len(b) /\ SubSeq(b, 1, Len(a)) = a
Count(s, v) == Cardinality({i \in 1..Len(s) : s[i] = v})
NoDuplicates(s) == \A i, j \in 1..Len(s) : s[i] = s[j] => i = j

\* favorite_gesture_slugs of the profile find_one returns for user_id u
Favorites(coll, u) ==
    LET d == find_one(coll, "user_id", u)
    IN  IF d = None THEN <<>>
        ELSE IF "favorite_gesture_slugs" \in DOMAIN d[1]
             THEN d[1].favorite_gesture_slugs ELSE <<>>

\* one collection across a seed_data call: nothing overwritten, and inserted
\* into only if it held no document
SeedFrame(pre, post) == IsPrefix(pre, post) /\ (post # pre => Len(pre) = 0)

\* C1: POST /api/seed is idempotent.  From any store state, once one
\* seed_data call has completed, every further seed_data call leaves the
\* gesture, module and quiz collections unchanged; every seed_data call keeps
\* the documents a collection holds and inserts into a collection only if it
\* held zero documents.
C1_SeedIdempotent ==
    [][ last'.op = "seed_data" =>
          /\ seeds >= 1 => (gesture' = gesture /\ module' = module /\ quiz' = quiz)
          /\ SeedFrame(gesture, gesture')
          /\ SeedFrame(module, module')
          /\ SeedFrame(quiz, quiz') ]_vars

\* C1 witness: a second seed_data call has completed on a store the first
\* call seeded.
C1_Witness ==
    /\ db /\ seeds >= 2 /\ last.op = "seed_data"
    /\ Len(gesture) = 3 /\ gesture[1].slug = "letter-a"
    /\ Len(module) = 1 /\ Len(quiz) = 1

\* C2: with the store available, GET /api/profile/{user_id} for a user_id
\* with no Profile creates exactly one Profile for it and returns it; a
\* second GET right after the first returns the same document and leaves the
\* profile collection unchanged.
C2_LazyCreateOnce ==
    [][ (last'.op = "get_profile" /\ db) =>
          LET u == last'.args.user_id
          IN  /\ Indexes(profile, "user_id", u) = {} =>
                    /\ Len(profile') = Len(profile) + 1
                    /\ IsPrefix(profile, profile')
                    /\ Cardinality(Indexes(profile', "user_id", u)) = 1
                    /\ last'.body = _to_json(profile'[Len(profile')])
              /\ (last.op = "get_profile" /\ last.args.user_id = u) =>
                    /\ profile' = profile
                    /\ last'.body = last.body ]_vars

\* C2 witness: the second of two GETs in a row for a user whose only
\* document is the one the first GET created.
C2_Witness ==
    /\ db /\ last.op = "get_profile" /\ last.repeat
    /\ Cardinality(Indexes(profile, "user_id", last.args.user_id)) = 1
    /\ last.body.name = "Pengguna" /\ last.body.points = 0
    /\ "updated_at" \notin DOMAIN last.body

\* the favorites part of one POST /api/profile step for the slugs in S
FavoriteAdded(S) ==
    LET u == last'.args.user_id
        f == last'.args.payload.favorite_gesture_slug
    IN  (/\ last'.op = "update_profile" /\ db
         /\ f # None /\ f[1] \in S
         /\ ~last'.args.payload.remove_favorite) =>
            /\ Count(Favorites(profile', u), f[1]) = 1
            /\ Contains(Favorites(profile, u), f[1]) =>
                  Favorites(profile', u) = Favorites(profile, u)
            /\ last'.repeat => Favorites(profile', u) = Favorites(profile, u)

FavoritesHaveNoDuplicates ==
    \A i \in 1..Len(profile) :
        "favorite_gesture_slugs" \in DOMAIN profile[i] =>
            NoDuplicates(profile[i].favorite_gesture_slugs)

FavoriteSlugs == {"", "halo"}

\* C3 as stated: after any sequence of POST /api/profile/{u} calls no
\* favorite slug occurs twice, and a POST with favorite_gesture_slug = s and
\* remove_favorite = false makes s present exactly once, for every s.
C3_FavoriteAddedForEverySlug ==
    /\ []FavoritesHaveNoDuplicates
    /\ [][FavoriteAdded(FavoriteSlugs)]_vars

\* C3 amended: after any sequence of POST /api/profile/{u} calls no favorite
\* slug occurs twice, and a POST with a non-empty favorite_gesture_slug = s
\* and remove_favorite = false makes s present exactly once, also when s was
\* already present, and repeating that POST leaves the list unchanged.
C3_FavoritesNoDuplicates ==
    /\ []FavoritesHaveNoDuplicates
    /\ [][FavoriteAdded(FavoriteSlugs \ {""})]_vars

\* C3 witness: the same POST adding "halo" was made twice in a row and the
\* list holds "halo" once.
C3_Witness ==
    /\ db /\ last.op = "update_profile" /\ last.repeat
    /\ last.args.payload.favorite_gesture_slug = Some("halo")
    /\ ~last.args.payload.remove_favorite
    /\ last.body.favorite_gesture_slugs = <<"halo">>

\* C4: POST /api/accessibility/{u} with a font_scale outside [0.85, 1.6] is
\* rejected with a validation error, and the stored font_scale of every
\* Accessibility document lies within [0.85, 1.6].
C4_FontScaleValidated ==
    /\ \A i \in 1..Len(accessibility) :
          "font_scale" \in DOMAIN accessibility[i] =>
              /\ accessibility[i].font_scale >= FontScaleMin
              /\ accessibility[i].font_scale <= FontScaleMax
    /\ (/\ last.op = "update_accessibility" /\ db
        /\ last.args.payload.font_scale # None
        /\ \/ last.args.payload.font_scale[1] < FontScaleMin
           \/ last.args.payload.font_scale[1] > FontScaleMax) => last.status = 422

\* C5: with the store available, POST /api/accessibility/{u} on an existing
\* Accessibility document overwrites exactly the fields of {dark_mode,
\* high_contrast, font_scale, reduce_motion} the payload supplies, leaves
\* every other field of the document and every other document unchanged,
\* and responds with the document as updated.
C5_AccessibilityUpdateFrame ==
    [][ (/\ last'.op = "update_accessibility" /\ db
         /\ Indexes(accessibility, "user_id", last'.args.user_id) # {}) =>
          LET p == last'.args.payload
              i == FirstIndex(accessibility, "user_id", last'.args.user_id)
              supplied == {k \in AccessibilityFields : p[k] # None}
          IN  /\ Len(accessibility') = Len(accessibility)
              /\ \A j \in 1..Len(accessibility) :
                    j # i => accessibility'[j] = accessibility[j]
              /\ DOMAIN accessibility'[i] = DOMAIN accessibility[i] \cup supplied
              /\ \A k \in DOMAIN accessibility'[i] :
                    accessibility'[i][k] =
                        IF k \in supplied THEN p[k][1] ELSE accessibility[i][k]
              /\ last'.status = 200
              /\ last'.body = _to_json(accessibility'[i])
              /\ UNCHANGED <<gesture, module, quiz, profile>> ]_vars

\* C5 witness: a POST supplying font_scale = 1.2 alone was answered with a
\* document that keeps the defaults of its other fields, while another
\* user's document exists.
C5_Witness ==
    /\ db /\ last.op = "update_accessibility" /\ last.status = 200
    /\ last.args.payload = AccessibilityUpdate(None, None, Some(120), None)
    /\ last.body.font_scale = 120
    /\ "dark_mode" \in DOMAIN last.body /\ ~last.body.dark_mode
    /\ "reduce_motion" \in DOMAIN last.body
    /\ Len(accessibility) = 2

\* the profile collection after GET /api/profile/{u} followed by the POST
GetThenPost(coll, u, payload, elapsed) ==
    update_one(create_document(coll, Profile(u, "Pengguna", u \o "@example.com")),
               "user_id", u, ProfileUpdateDoc(payload, elapsed))

\* C6: POST /api/profile/{user_id} for a user_id with no Profile creates the
\* document that GET /api/profile/{user_id} followed by the same POST
\* produces: the Profile defaults with the payload applied on top.
C6_UpsertOnDefaults ==
    [][ (/\ last'.op = "update_profile" /\ db
         /\ Indexes(profile, "user_id", last'.args.user_id) = {}) =>
          \E t \in Elapsed :
              profile' = GetThenPost(profile, last'.args.user_id,
                                     last'.args.payload, t) ]_vars

\* C7: with the store available, for every page >= 1 and limit >= 1 GET
\* /api/gestures returns at most limit items, each matching the filter;
\* total is the number of documents matching the filter, whatever page and
\* limit are; the items are the matching documents at offsets (page-1)*limit
\* to page*limit-1 of the store's order.
C7_ListGesturesPage ==
    (last.op = "list_gestures" /\ db /\ last.args.page >= 1 /\ last.args.limit >= 1) =>
        LET a == last.args
            f == FilterQ(a.q, a.category, a.difficulty)
            M == MatchingDocs(gesture, f)
            items == last.body.items
            off == (a.page - 1) * a.limit
        IN  /\ last.status = 200
            /\ Len(items) <= a.limit
            /\ last.body.total = Cardinality({i \in 1..Len(gesture) : Matches(gesture[i], f)})
            /\ Len(items) = IF Len(M) - off < 0 THEN 0 ELSE Min(a.limit, Len(M) - off)
            /\ \A k \in 1..Len(items) :
                  /\ Matches(items[k], f)
                  /\ items[k] = _to_json(M[off + k])
            /\ last.body.page = a.page /\ last.body.limit = a.limit

\* C7 witness: the second page of two of an unfiltered listing of the three
\* seeded gestures holds the third one only.
C7_Witness ==
    /\ db /\ last.op = "list_gestures"
    /\ last.args.page = 2 /\ last.args.limit = 2 /\ last.args.q = None
    /\ last.body.total = 3 /\ Len(last.body.items) = 1
    /\ last.body.items[1].slug = "terima-kasih"

Lookups == {"get_gesture", "get_module", "get_quiz"}
LookupCollection(op) ==
    CASE op = "get_gesture" -> gesture [] op = "get_module" -> module
      [] op = "get_quiz" -> quiz

\* C8: GET /api/gestures/{slug}, /api/modules/{slug} and /api/quizzes/{slug}
\* answer 404 when no document of the collection has the slug or the store
\* is unavailable, and otherwise a document whose slug is the requested one;
\* none of them changes the store.
C8_LookupBySlug ==
    /\ [](last.op \in Lookups =>
            LET coll == LookupCollection(last.op)
                known == \E i \in 1..Len(coll) : coll[i].slug = last.args.slug
            IN  IF ~db \/ ~known THEN last.status = 404
                ELSE last.status = 200 /\ last.body.slug = last.args.slug)
    /\ [][last'.op \in Lookups => store' = store]_vars

\* C8 witness: a lookup found a gesture that is not the first of its
\* collection.
C8_Witness ==
    /\ db /\ last.op = "get_gesture" /\ last.status = 200
    /\ last.body.slug = "halo" /\ gesture[1].slug # "halo"

\* C9: with the store unavailable, GET /api/gestures answers an empty page
\* (items = [], total = 0, the requested page and limit), GET /api/modules an
\* empty list, GET /api/profile and GET /api/accessibility an empty document,
\* all without an error; POST /api/profile and POST /api/accessibility fail
\* with a server error; no operation changes the store.
C9_StoreUnavailable ==
    /\ [](~db =>
            /\ last.op = "list_gestures" =>
                  /\ last.status = 200
                  /\ last.body = [items |-> <<>>, total |-> 0,
                                  page |-> last.args.page, limit |-> last.args.limit]
            /\ last.op = "list_modules" => last.status = 200 /\ last.body = <<>>
            /\ last.op \in {"get_profile", "get_accessibility"} =>
                  last.status = 200 /\ last.body = EmptyDict
            /\ last.op \in {"update_profile", "update_accessibility"} =>
                  last.status = 500)
    /\ [][~db => store' = store]_vars

\* C9 witness: a POST /api/profile was refused while the store was
\* unavailable.
C9_Witness ==
    /\ ~db /\ last.op = "update_profile" /\ last.status = 500
    /\ last.args.payload.name = Some("Ann") /\ profile = <<>>

\* C10: under every interleaving of concurrent GET and POST
\* /api/profile/{user_id} requests whose store calls are atomic one by one,
\* the profile collection holds at most one document per user_id.
C10_OneProfilePerUser ==
    \A u \in UserIds : Cardinality(Indexes(profile, "user_id", u)) <= 1

=============================================================================
